---- MODULE Spec2Model ----
(***************************************************************************)
(* View models of phy/cluster/view_models.py: the selection controller     *)
(* (BaseClusterViewModel / VispyViewModel), the trace windowing engine      *)
(* (TraceViewModel) and the waveform, correlogram and feature view models.  *)
(* One state machine; the class of the view model under study is chosen in  *)
(* Init and every public method is one action.                              *)
(***************************************************************************)
EXTENDS Integers, Sequences, FiniteSets, TLC

VARIABLES
    cls,            \* class of the view model: "html", "trace", "waveform", ...
    model,          \* the (read-only) data model: traces, spikes, sample rate
    interval_size,  \* TraceViewModel.interval_size, in units of 1/IntervalSizeDen s
    _cluster_ids,   \* BaseClusterViewModel._cluster_ids
    selector,       \* VispyViewModel._selector
    _interval,      \* TraceViewModel._interval
    visual,         \* self._view.visual: the rendering fields
    mean,           \* self._view.mean (waveform view only)
    view,           \* self._view: the fields set on the view itself
    corr,           \* CorrelogramViewModel: binsize, winsize_bins, _normalization, _ccgs
    faults,         \* number of faulty answers the store has given so far
    call,           \* the last public call and its arguments
    raised,         \* the exception the last call raised, or "none"
    pushed,         \* the visuals seen by each view.update() of the last call
    on_select_args, \* the arguments of each on_select() of the last call
    fn              \* the last call of a module-level function and its result

vars == <<cls, model, interval_size, _cluster_ids, selector, _interval,
          visual, mean, view, corr, faults, call, raised, pushed, on_select_args,
          fn>>

-----------------------------------------------------------------------------
(* Bounds of the model *)

MaxSamples == 3        \* model.traces.shape[0]
NSpikes == 2           \* number of spikes of the recording
MaxCluster == 2        \* cluster ids are 0..MaxCluster; MaxCluster has no spike
MaxSel == 2            \* longest cluster selection
Margin == 1            \* requested interval bounds range over -Margin..n+Margin
MaxIntervalNum == 2    \* interval_size ranges over 0..MaxIntervalNum quarters
SampleRate == 10       \* model.sample_rate (samples per second)
MaxFaults == 1         \* faulty answers of the store in one behaviour
MaxCount == 2          \* largest count of a raw correlogram given to _normalize
MaxScore == 2          \* largest mean feature of a channel
MaxGridLen == 2        \* most channels given to _dimensions on one axis

(* Program constants *)
IntervalSizeDen == 4   \* interval_size = .25 is 1/IntervalSizeDen
DefaultBinsize == 20   \* CorrelogramViewModel.binsize
DefaultWinsizeBins == 41  \* CorrelogramViewModel.winsize_bins

-----------------------------------------------------------------------------
(* Python values *)

None == [is_none |-> TRUE, val |-> <<>>]
Some(x) == [is_none |-> FALSE, val |-> x]

Min(a, b) == IF a <= b THEN a ELSE b
Max(a, b) == IF a >= b THEN a ELSE b

\* int(num / den): Python's int() truncates towards zero.
int_div(num, den) ==
    IF num >= 0 THEN num \div den ELSE -((-num) \div den)

\* np.clip(a, a_min, a_max) is minimum(maximum(a, a_min), a_max).
np_clip(a, a_min, a_max) == Min(Max(a, a_min), a_max)

\* a.searchsorted(v) on a sorted array: the number of entries below v.
searchsorted(a, v) == Cardinality({i \in DOMAIN a : a[i] < v})

\* All sequences over S of length at most k.
SeqUpTo(S, k) == UNION {[1..m -> S] : m \in 0..k}

IsSorted(a) == \A i \in DOMAIN a : \A j \in DOMAIN a : i <= j => a[i] <= a[j]

Clusters == 0..MaxCluster
Spikes == 1..NSpikes

\* The number of distinct entries of a: len(_unique(a)).
n_unique(a) == Cardinality({a[i] : i \in DOMAIN a})

RECURSIVE insert_sorted(_, _)
insert_sorted(a, x) ==
    IF a = <<>> THEN <<x>>
    ELSE IF x <= Head(a) THEN <<x>> \o a
    ELSE <<Head(a)>> \o insert_sorted(Tail(a), x)

\* np.sort(a)
RECURSIVE np_sort(_)
np_sort(a) == IF a = <<>> THEN <<>> ELSE insert_sorted(np_sort(Tail(a)), Head(a))

-----------------------------------------------------------------------------
(* External collaborators *)

AllSpikes == [i \in DOMAIN model.spike_clusters |-> i]

\* _spikes_in_clusters(spike_clusters, clusters): the spikes of the clusters,
\* in increasing spike order.
_spikes_in_clusters(clusters) ==
    LET InClusters(s) == \E i \in DOMAIN clusters : clusters[i] = model.spike_clusters[s]
    IN SelectSeq(AllSpikes, InClusters)

\* Selector(): nothing is selected at construction.
Selector_init == [selected_clusters |-> <<>>, selected_spikes |-> <<>>]

\* Selector.selected_clusters = ids: keeps the ids and selects their spikes.
Selector_set_selected_clusters(ids) ==
    [selected_clusters |-> ids, selected_spikes |-> _spikes_in_clusters(ids)]

\* _selected_clusters_colors(n): one colour per index 0..n-1.
_selected_clusters_colors(n) == [i \in 1..n |-> i - 1]

\* a[spikes] for a per-spike array of the model.
Take(a, spikes) == [i \in DOMAIN spikes |-> a[spikes[i]]]

-----------------------------------------------------------------------------
(* BaseClusterViewModel / VispyViewModel accessors *)

\* VispyViewModel.cluster_ids overrides BaseClusterViewModel.cluster_ids.
cluster_ids ==
    IF cls = "html" THEN _cluster_ids ELSE Some(selector.selected_clusters)

\* VispyViewModel.spike_ids
spike_ids == selector.selected_spikes

\* BaseClusterViewModel.n_clusters: len(self._cluster_ids); len(None) raises.
n_clusters ==
    IF _cluster_ids.is_none THEN [raised |-> "TypeError", value |-> 0]
    ELSE [raised |-> "none", value |-> Len(_cluster_ids.val)]

\* What view.update() draws: the fields of the view and of its visuals.
Snapshot(v, m, w) == [visual |-> v, mean |-> m, view |-> w]

\* VispyViewModel.update_spike_clusters(spikes), on the visual vis.
update_spike_clusters(vis, spikes) ==
    LET spike_clusters == Take(model.spike_clusters, spikes)
    IN [vis EXCEPT !.spike_clusters = spike_clusters,
                   !.cluster_colors = _selected_clusters_colors(n_unique(spike_clusters))]

-----------------------------------------------------------------------------
(* TraceViewModel *)

tuple(a, b) == [is_tuple |-> TRUE, elems |-> <<a, b>>]

\* _load_traces without "spike_samples - start": absolute spike samples.
_load_traces_absolute_samples(vis, interval, spikes) ==
    LET start == interval[1]
        end == interval[2]
        spike_samples == Take(model.spike_samples, spikes)
        a == searchsorted(spike_samples, start)
        b == searchsorted(spike_samples, end)
        kept == SubSeq(spikes, a + 1, b)
        v1 == [vis EXCEPT !.traces = <<start, end>>,
                          !.n_spikes = Len(kept),
                          !.spike_ids = kept]
    IN IF Len(kept) = 0 THEN v1
       ELSE [v1 EXCEPT !.spike_clusters = Take(model.spike_clusters, kept),
                       !.spike_samples = [i \in DOMAIN kept |->
                                             model.spike_samples[kept[i]]],
                       !.offset = start,
                       !.masks = kept]

\* _load_traces without the early return: an interval without spikes empties
\* the per-spike fields.
_load_traces_clears_when_empty(vis, interval, spikes) ==
    LET start == interval[1]
        end == interval[2]
        spike_samples == Take(model.spike_samples, spikes)
        a == searchsorted(spike_samples, start)
        b == searchsorted(spike_samples, end)
        kept == SubSeq(spikes, a + 1, b)
        v1 == [vis EXCEPT !.traces = <<start, end>>,
                          !.n_spikes = Len(kept),
                          !.spike_ids = kept]
    IN [v1 EXCEPT !.spike_clusters = Take(model.spike_clusters, kept),
                  !.spike_samples = [i \in DOMAIN kept |->
                                        model.spike_samples[kept[i]] - start],
                  !.offset = start,
                  !.masks = kept]

\* TraceViewModel._load_traces(interval), on the visual vis.
_load_traces(vis, interval, spikes) ==
    LET start == interval[1]
        end == interval[2]
        spike_samples == Take(model.spike_samples, spikes)
        a == searchsorted(spike_samples, start)
        b == searchsorted(spike_samples, end)
        kept == SubSeq(spikes, a + 1, b)
        v1 == [vis EXCEPT !.traces = <<start, end>>,
                          !.n_spikes = Len(kept),
                          !.spike_ids = kept]
    IN IF Len(kept) = 0 THEN v1
       ELSE [v1 EXCEPT !.spike_clusters = Take(model.spike_clusters, kept),
                       !.spike_samples = [i \in DOMAIN kept |->
                                             model.spike_samples[kept[i]] - start],
                       !.offset = start,
                       !.masks = kept]

\* clamp without "start -= (end - n)": the left bound is not shifted.
clamp_no_left_shift(start0, end0, n) ==
    LET shifted == IF start0 < 0 THEN <<0, end0 + (-start0)>>
                   ELSE IF end0 >= n THEN <<start0, n>>
                   ELSE <<start0, end0>>
        start == np_clip(shifted[1], 0, shifted[2])
        end == np_clip(shifted[2], start, n)
    IN <<start, end>>

\* clamp without "end += (-start)": the right bound is not shifted.
clamp_no_right_shift(start0, end0, n) ==
    LET shifted == IF start0 < 0 THEN <<0, end0>>
                   ELSE IF end0 >= n THEN <<start0 - (end0 - n), n>>
                   ELSE <<start0, end0>>
        start == np_clip(shifted[1], 0, shifted[2])
        end == np_clip(shifted[2], start, n)
    IN <<start, end>>

\* clamp shifting one sample too far to the left at the right boundary.
clamp_extra_shift(start0, end0, n) ==
    LET shifted == IF start0 < 0 THEN <<0, end0 + (-start0)>>
                   ELSE IF end0 >= n THEN <<start0 - (end0 - n) - 1, n>>
                   ELSE <<start0, end0>>
        start == np_clip(shifted[1], 0, shifted[2])
        end == np_clip(shifted[2], start, n)
    IN <<start, end>>

\* The restriction of (start, end) to the boundaries of the traces.
clamp(start0, end0, n) ==
    LET shifted == IF start0 < 0 THEN <<0, end0 + (-start0)>>
                   ELSE IF end0 >= n THEN <<start0 - (end0 - n), n>>
                   ELSE <<start0, end0>>
        start == np_clip(shifted[1], 0, shifted[2])
        end == np_clip(shifted[2], start, n)
    IN <<start, end>>

\* The assertion with "<=" for "<": an empty interval passes.
interval_assertion_weak(start, end, n) == 0 <= start /\ start <= end /\ end <= n

\* assert 0 <= start < end <= n
interval_assertion(start, end, n) == 0 <= start /\ start < end /\ end <= n

\* The shape test without isinstance(value, tuple).
is_interval_value_any_pair(value) == Len(value.elems) = 2

\* The shape test of the interval setter.
is_interval_value(value) == value.is_tuple /\ Len(value.elems) = 2

\* TraceViewModel.interval = value, on the visual vis: the exception raised
\* (or "none"), the interval stored, the visual and the view updates issued.
interval_setter(vis, value, spikes) ==
    IF ~is_interval_value(value)
    THEN [raised |-> "ValueError", stored |-> FALSE, interval |-> <<0, 0>>,
          visual |-> vis, pushed |-> <<>>]
    ELSE LET n == model.traces_shape0
             c == clamp(value.elems[1], value.elems[2], n)
         IN IF ~interval_assertion(c[1], c[2], n)
            THEN [raised |-> "AssertionError", stored |-> FALSE, interval |-> c,
                  visual |-> vis, pushed |-> <<>>]
            ELSE LET v == _load_traces(vis, c, spikes)
                 IN [raised |-> "none", stored |-> TRUE, interval |-> c,
                     visual |-> v, pushed |-> <<Snapshot(v, mean, view)>>]

\* int(self.interval_size * self.model.sample_rate / 2.)
half_size == int_div(interval_size * model.sample_rate, 2 * IntervalSizeDen)

\* The default interval always centred on half_size, whatever the spikes.
default_interval_ignores_spikes(spikes) ==
    tuple(half_size - half_size, half_size + half_size)

\* The default interval ending at the first spike instead of centred on it.
default_interval_before_spike(spikes) ==
    LET sample == IF Len(spikes) > 0 THEN model.spike_samples[spikes[1]]
                  ELSE half_size
    IN tuple(sample - 2 * half_size, sample)

\* The default interval of on_select: around the first spike, or from 0.
default_interval(spikes) ==
    LET sample == IF Len(spikes) > 0 THEN model.spike_samples[spikes[1]]
                  ELSE half_size
    IN tuple(sample - half_size, sample + half_size)

\* TraceViewModel.on_select(clusters)
Trace_on_select(vis, clusters, spikes) ==
    LET v1 == [vis EXCEPT !.spike_clusters = Take(model.spike_clusters, spikes),
                          !.cluster_ids = clusters,
                          !.cluster_order = clusters,
                          !.cluster_colors = _selected_clusters_colors(Len(clusters)),
                          !._update_clusters_automatically = FALSE]
    IN interval_setter(v1, default_interval(spikes), spikes)

\* int(amount) for the amount fraction * width of move_right / move_left.
move_amount(width, fraction, sign) ==
    int_div(sign * width * fraction[1], fraction[2])

-----------------------------------------------------------------------------
(* The store *)

\* What the store answers to the loads of one on_select: for each kind,
\* "ok", "raise" (the load raises) or "bad_shape" (an array with one row too
\* many).
StoreKinds == {"waveforms", "mean_waveforms", "mean_masks", "masks", "features"}
AllOk == [k \in StoreKinds |-> "ok"]

\* store.load(kind, ...): the array, as the rows it holds.
store_load(resp, kind, rows) ==
    [kind |-> kind,
     rows |-> IF resp[kind] = "bad_shape" THEN Append(rows, 0) ELSE rows]

\* The outcome of an on_select: the exception raised (or "none"), the fields
\* of the visuals and of the view, and what each view.update() has drawn.
Outcome(exc, v, m, w, p) ==
    [raised |-> exc, visual |-> v, mean |-> m, view |-> w, pushed |-> p]

-----------------------------------------------------------------------------
(* WaveformViewModel *)

\* WaveformViewModel.on_select(clusters)
Waveform_on_select(vis, mn, clusters, sel, resp) ==
    LET n_clusters_ == Len(clusters)
        spikes == _spikes_in_clusters(clusters)
        n_spikes == Len(spikes)
        waveforms == store_load(resp, "waveforms", spikes)
        mean_waveforms == store_load(resp, "mean_waveforms", clusters)
        mean_masks == store_load(resp, "mean_masks", clusters)
        masks == store_load(resp, "masks", spikes)
        \* self.update_spike_clusters(spikes)
        v1 == update_spike_clusters(vis, spikes)
        m1 == [mn EXCEPT !.spike_clusters = np_sort(sel.selected_clusters),
                         !.cluster_colors = v1.cluster_colors]
        \* Cluster display order.
        v2 == [v1 EXCEPT !.cluster_order = clusters]
        m2 == [m1 EXCEPT !.cluster_order = clusters]
        \* Waveforms.
        v3 == [v2 EXCEPT !.waveforms = waveforms]
        m3 == [m2 EXCEPT !.waveforms = mean_waveforms]
        \* Masks.
        v4 == [v3 EXCEPT !.masks = masks]
        m4 == [m3 EXCEPT !.masks = mean_masks]
        \* Spikes.
        v5 == [v4 EXCEPT !.spike_ids = spikes]
        m5 == [m4 EXCEPT !.spike_ids = [i \in 1..n_clusters_ |-> i - 1]]
    IN IF resp["waveforms"] = "raise"
            \/ resp["mean_waveforms"] = "raise" \/ resp["mean_masks"] = "raise"
       THEN Outcome("DataUnavailableError", vis, mn, view, <<>>)
       ELSE IF Len(waveforms.rows) # n_spikes
       THEN Outcome("AssertionError", v2, m2, view, <<>>)
       ELSE IF Len(mean_waveforms.rows) # n_clusters_
       THEN Outcome("AssertionError", v3, m2, view, <<>>)
       ELSE IF resp["masks"] = "raise"
       THEN Outcome("DataUnavailableError", v3, m3, view, <<>>)
       ELSE IF Len(masks.rows) # n_spikes
       THEN Outcome("AssertionError", v3, m3, view, <<>>)
       ELSE IF Len(mean_masks.rows) # n_clusters_
       THEN Outcome("AssertionError", v4, m3, view, <<>>)
       ELSE Outcome("none", v5, m5, view, <<Snapshot(v5, m5, view)>>)

-----------------------------------------------------------------------------
(* BaseFeatureViewModel / FeatureViewModel *)

\* FeatureViewModel.dimensions_for_clusters: (self._x_dim, self._y_dim).
Feature_x_dim == "time"
Feature_y_dim == <<0, 0>>

\* BaseFeatureViewModel.on_select(clusters)
Feature_on_select(vis, w, clusters, sel, resp) ==
    LET \* super().on_select(clusters): update_spike_clusters(), view.update()
        spikes == sel.selected_spikes
        v1 == update_spike_clusters(vis, spikes)
        p1 == <<Snapshot(v1, mean, w)>>
        features == store_load(resp, "features", spikes)
        masks == store_load(resp, "masks", spikes)
        v2 == [v1 EXCEPT !.features = features,
                         !.masks = masks,
                         !.spike_ids = spikes,
                         !.cluster_order = clusters]
        w2 == [w EXCEPT !.extra_time = Take(model.spike_samples, spikes),
                        !.x_dim = Feature_x_dim,
                        !.y_dim = Feature_y_dim]
    IN IF resp["features"] = "raise" \/ resp["masks"] = "raise"
       THEN Outcome("DataUnavailableError", v1, mean, w, p1)
       ELSE IF Len(features.rows) # Len(spikes)
       THEN \* features.reshape((len(spikes), nc, nf)) raises
            Outcome("ValueError", v1, mean, w, p1)
       ELSE Outcome("none", v2, mean, w2, p1)

-----------------------------------------------------------------------------
(* _best_channels and _dimensions *)

\* model.n_features_per_channel and len(model.channel_order)
n_features_per_channel == 2
n_channels == 3

\* score.reshape((-1, n_fet)).mean(axis=1), each mean as the sum of its row
\* (n_fet times the mean).
row_sums(mean_features) ==
    [c \in 1..(Len(mean_features) \div n_features_per_channel) |->
        LET RECURSIVE sum_to(_)
            sum_to(k) ==
                IF k = 0 THEN 0
                ELSE sum_to(k - 1)
                     + mean_features[(c - 1) * n_features_per_channel + k]
        IN sum_to(n_features_per_channel)]

\* np.argsort(score): the default sort is not stable, any order of the
\* indices (from 0) that sorts the scores can be returned.
argsort(score) ==
    {p \in [DOMAIN score -> 0..(Len(score) - 1)] :
        /\ \A i \in DOMAIN p : \A j \in DOMAIN p : i # j => p[i] # p[j]
        /\ \A i \in DOMAIN p : \A j \in DOMAIN p :
              i < j => score[p[i] + 1] <= score[p[j] + 1]}

\* a[::-1]
reversed(a) == [i \in DOMAIN a |-> a[Len(a) + 1 - i]]

\* _best_channels(cluster, model, store), store.mean_features(cluster) being
\* mean_features and order the result of np.argsort.
_best_channels(mean_features, order) ==
    IF Len(mean_features) % n_features_per_channel # 0
    THEN [raised |-> "ValueError", channels |-> <<>>]
    ELSE IF Len(row_sums(mean_features)) # n_channels
    THEN [raised |-> "AssertionError", channels |-> <<>>]
    ELSE [raised |-> "none", channels |-> reversed(order)]

\* The dimensions 'time' and (channel, feature).
Time == [kind |-> "time"]
Dim(channel, feature) == [kind |-> "feature", channel |-> channel, feature |-> feature]

\* _dimensions with x_dim[i, j] = (x_channels[j - 1], i - 1).
_dimensions_x_transposed(x_channels, y_channels) ==
    LET n == Len(x_channels)
        keys == (0..n) \X (0..n)
    IN IF Len(y_channels) # n
       THEN [raised |-> "AssertionError", x_dim |-> <<>>, y_dim |-> <<>>]
       ELSE [raised |-> "none",
             x_dim |-> [key \in keys |->
                 IF key[1] = 0 \/ key[2] = 0 THEN Time
                 ELSE Dim(x_channels[key[2]], key[1] - 1)],
             y_dim |-> [key \in keys |->
                 IF key = <<0, 0>> THEN Time
                 ELSE IF key[1] = 0 THEN Dim(x_channels[key[2]], 0)
                 ELSE IF key[2] = 0 THEN Dim(y_channels[key[1]], 0)
                 ELSE Dim(y_channels[key[2]], key[1] - 1)]]

\* _dimensions with x_dim[i, j] = (x_channels[0], j - 1).
_dimensions_first_channel(x_channels, y_channels) ==
    LET n == Len(x_channels)
        keys == (0..n) \X (0..n)
    IN IF Len(y_channels) # n
       THEN [raised |-> "AssertionError", x_dim |-> <<>>, y_dim |-> <<>>]
       ELSE [raised |-> "none",
             x_dim |-> [key \in keys |->
                 IF key[1] = 0 \/ key[2] = 0 THEN Time
                 ELSE Dim(x_channels[1], key[2] - 1)],
             y_dim |-> [key \in keys |->
                 IF key = <<0, 0>> THEN Time
                 ELSE IF key[1] = 0 THEN Dim(x_channels[key[2]], 0)
                 ELSE IF key[2] = 0 THEN Dim(y_channels[key[1]], 0)
                 ELSE Dim(y_channels[key[2]], key[1] - 1)]]

\* _dimensions(x_channels, y_channels): the dictionaries x_dim and y_dim, by
\* key (i, j).
_dimensions(x_channels, y_channels) ==
    LET n == Len(x_channels)
        keys == (0..n) \X (0..n)
    IN IF Len(y_channels) # n
       THEN [raised |-> "AssertionError", x_dim |-> <<>>, y_dim |-> <<>>]
       ELSE [raised |-> "none",
             x_dim |-> [key \in keys |->
                 IF key[1] = 0 \/ key[2] = 0 THEN Time
                 ELSE Dim(x_channels[key[1]], key[2] - 1)],
             y_dim |-> [key \in keys |->
                 IF key = <<0, 0>> THEN Time
                 ELSE IF key[1] = 0 THEN Dim(x_channels[key[2]], 0)
                 ELSE IF key[2] = 0 THEN Dim(y_channels[key[1]], 0)
                 ELSE Dim(y_channels[key[2]], key[1] - 1)]]

\* a[:k] for k >= 0
first_k(a, k) == SubSeq(a, 1, Min(k, Len(a)))

\* [c for c in a if c not in b]
not_in(a, b) ==
    LET Absent(c) == \A i \in DOMAIN b : b[i] # c
    IN SelectSeq(a, Absent)

\* FeatureGridViewModel.dimensions_for_clusters(cluster_ids), best[c] being
\* what _best_channels returns for the cluster c and n_rows the number of rows
\* of the view: the channels given to _dimensions and its result.
dimensions_for_clusters(ids, best, n_rows) ==
    LET n == Len(ids)
        second == best[ids[Min(1, n - 1) + 1]]
        first == best[ids[1]]
        y_channels == first_k(first.channels, n_rows - 1)
        x_channels == first_k(not_in(second.channels, y_channels), n_rows - 1)
        res == _dimensions(x_channels, y_channels)
    IN IF n = 0
       THEN [raised |-> "none", called |-> FALSE, x_channels |-> <<>>,
             y_channels |-> <<>>, x_dim |-> <<>>, y_dim |-> <<>>]
       ELSE IF second.raised # "none"
       THEN [raised |-> second.raised, called |-> FALSE, x_channels |-> <<>>,
             y_channels |-> <<>>, x_dim |-> <<>>, y_dim |-> <<>>]
       ELSE IF first.raised # "none"
       THEN [raised |-> first.raised, called |-> FALSE, x_channels |-> <<>>,
             y_channels |-> <<>>, x_dim |-> <<>>, y_dim |-> <<>>]
       ELSE [raised |-> res.raised, called |-> TRUE, x_channels |-> x_channels,
             y_channels |-> y_channels, x_dim |-> res.x_dim, y_dim |-> res.y_dim]

-----------------------------------------------------------------------------
(* CorrelogramViewModel *)

\* _oddify leaving x as it is.
_oddify_identity(x) == x

\* _oddify(x)
_oddify(x) == IF x % 2 = 1 THEN x ELSE x + 1

\* correlograms(spike_samples, spike_clusters, cluster_order, binsize,
\* winsize_bins): for each pair of clusters and each lag bin 0..winsize_bins
\* \div 2, the number of pairs of distinct spikes at that (non-negative) lag.
correlograms(spike_samples, spike_clusters, cluster_order, binsize, winsize_bins) ==
    [i \in DOMAIN cluster_order |-> [j \in DOMAIN cluster_order |->
        [k \in 1..(winsize_bins \div 2 + 1) |->
            Cardinality({<<a, b>> \in (DOMAIN spike_samples) \X (DOMAIN spike_samples) :
                /\ a # b
                /\ spike_clusters[a] = cluster_order[i]
                /\ spike_clusters[b] = cluster_order[j]
                /\ spike_samples[b] >= spike_samples[a]
                /\ (spike_samples[b] - spike_samples[a]) \div binsize = k - 1})]]]

\* _symmetrize_correlograms(ccgs): the lag axis mirrored around lag 0.
_symmetrize_correlograms(ccgs) ==
    [i \in DOMAIN ccgs |-> [j \in DOMAIN ccgs |->
        LET nb == Len(ccgs[i][j])
        IN [k \in 1..(2 * nb - 1) |->
               IF k > nb THEN ccgs[i][j][k - nb + 1]
               ELSE IF k < nb THEN ccgs[j][i][nb - k + 1]
               ELSE Max(ccgs[i][j][1], ccgs[j][i][1])]]]

\* The largest entry of a sequence of naturals (0 when empty).
seq_max(a) == IF a = <<>> THEN 0 ELSE CHOOSE x \in {a[k] : k \in DOMAIN a} :
                                          \A k \in DOMAIN a : a[k] <= x

\* floor(log2(m)) for m >= 1: the exponent of the double m.
RECURSIVE floor_log2(_)
floor_log2(m) == IF m < 2 THEN 0 ELSE 1 + floor_log2(m \div 2)

\* 2^k modulo m
RECURSIVE pow2_mod(_, _)
pow2_mod(k, m) == IF k = 0 THEN 1 % m ELSE (2 * pow2_mod(k - 1, m)) % m

\* m * (1. / m) == 1.0 in double precision, for an integer m >= 1: 1. / m is
\* 2^(53 + e) / m rounded to an integer N (e the exponent of m), and m * N is
\* rounded to a multiple of 2^e below 2^(53 + e).
times_reciprocal_is_one(m) ==
    LET e == floor_log2(m)
        rem == pow2_mod(53 + e, m)
    IN 2 * rem >= m \/ 2 * rem <= 2 ^ e

\* The entry count * (1. / divisor) of a normalized tensor is 1.0.
normalized_is_one(entry) ==
    entry[1] = entry[2] /\ times_reciprocal_is_one(entry[2])

\* _normalize dividing by the maximum itself, without max(1., ...).
_normalize_no_floor(ccgs, normalization) ==
    IF Len(ccgs) = 0 THEN ccgs
    ELSE IF normalization = "equal"
    THEN LET m == seq_max([i \in DOMAIN ccgs |->
                      seq_max([j \in DOMAIN ccgs |-> seq_max(ccgs[i][j])])])
         IN [i \in DOMAIN ccgs |-> [j \in DOMAIN ccgs |->
                [k \in DOMAIN ccgs[i][j] |-> <<ccgs[i][j][k], m>>]]]
    ELSE [i \in DOMAIN ccgs |-> [j \in DOMAIN ccgs |->
            [k \in DOMAIN ccgs[i][j] |->
                <<ccgs[i][j][k], seq_max(ccgs[i][j])>>]]]

\* CorrelogramViewModel._normalize(ccgs): every quotient as <<count, divisor>>.
_normalize(ccgs, normalization) ==
    IF Len(ccgs) = 0 THEN ccgs
    ELSE IF normalization = "equal"
    THEN LET m == seq_max([i \in DOMAIN ccgs |->
                      seq_max([j \in DOMAIN ccgs |-> seq_max(ccgs[i][j])])])
         IN [i \in DOMAIN ccgs |-> [j \in DOMAIN ccgs |->
                [k \in DOMAIN ccgs[i][j] |-> <<ccgs[i][j][k], Max(1, m)>>]]]
    ELSE [i \in DOMAIN ccgs |-> [j \in DOMAIN ccgs |->
            [k \in DOMAIN ccgs[i][j] |->
                <<ccgs[i][j][k], Max(1, seq_max(ccgs[i][j]))>>]]]

\* CorrelogramViewModel.on_select(clusters): the outcome, the new _ccgs and
\* the calls of the histogram kernel with their arguments.
Correlogram_on_select(vis, w, co, clusters, sel) ==
    LET \* super().on_select(clusters): update_spike_clusters(), view.update()
        spikes == sel.selected_spikes
        v1 == update_spike_clusters(vis, spikes)
        p1 == Snapshot(v1, mean, w)
        w1 == [w EXCEPT !.cluster_ids = clusters]
        ccgs == correlograms(Take(model.spike_samples, spikes), v1.spike_clusters,
                             clusters, co.binsize, _oddify(co.winsize_bins))
        sym == _symmetrize_correlograms(ccgs)
        w2 == [w1 EXCEPT !.correlograms = _normalize(sym, co._normalization)]
        v2 == [v1 EXCEPT !.cluster_order = clusters]
    IN [outcome |-> Outcome("none", v2, mean, w2, <<p1, Snapshot(v2, mean, w2)>>),
        _ccgs |-> sym,
        kernel_calls |-> <<[cluster_order |-> clusters, binsize |-> co.binsize,
                            winsize_bins |-> _oddify(co.winsize_bins)]>>]

\* bin * .001: milliseconds to seconds, a duration being the fraction
\* <<numerator, denominator>> with a positive denominator.
to_seconds(ms) == <<ms[1], ms[2] * 1000>>

\* np.clip(x, .001, 1e6) of the fraction x.
clip_seconds(x) ==
    IF x[1] <= 0 THEN <<1, 1000>>
    ELSE IF x[2] \div x[1] > 1000 \/ (x[2] \div x[1] = 1000 /\ x[2] % x[1] # 0)
    THEN <<1, 1000>>
    ELSE IF x[1] \div x[2] >= 1000000 THEN <<1000000, 1>>
    ELSE x

\* int(sr * bin)
binsize_of(sr, bin) == int_div(sr * bin[1], bin[2])

\* 2 * int(half_width / bin), without "+ 1".
winsize_bins_of_even(bin, half_width) ==
    2 * int_div(half_width[1] * bin[2], half_width[2] * bin[1])

\* 2 * int(half_width / bin) + 1
winsize_bins_of(bin, half_width) ==
    2 * int_div(half_width[1] * bin[2], half_width[2] * bin[1]) + 1

\* CorrelogramViewModel.change_bins(bin, half_width), up to its final select:
\* the new binsize and winsize_bins.
change_bins(co, sr, bin_ms, half_width_ms) ==
    LET bin == clip_seconds(to_seconds(bin_ms))
        half_width == clip_seconds(to_seconds(half_width_ms))
    IN [co EXCEPT !.binsize = binsize_of(sr, bin),
                  !.winsize_bins = winsize_bins_of(bin, half_width)]

-----------------------------------------------------------------------------
(* Inputs *)

\* The answers of the store with at most one faulty kind among kinds.
StoreResponses(kinds, flaws) ==
    {AllOk} \cup {[AllOk EXCEPT ![k] = f] : k \in kinds, f \in flaws}

IsFaulty(resp) == resp # AllOk

Selections == SeqUpTo(Clusters, MaxSel)

IntervalBounds(n) == (0 - Margin)..(n + Margin)

\* Well-formed and malformed interval values: tuples and lists of 0..3 values.
IntervalValues(n) ==
    {tuple(a, b) : a \in IntervalBounds(n), b \in IntervalBounds(n)}
    \cup {[is_tuple |-> t, elems |-> e] :
         t \in BOOLEAN, e \in {<<>>, <<0>>, <<0, 1>>, <<0, 1, 2>>}}

\* The intervals inside the traces.
InsideValues(n) == {tuple(a, b) : a \in 0..n, b \in 0..n}

Amounts(n) == (0 - n)..n

\* Fractions num/den of move_left / move_right: .05 is the default, 1 the
\* fast scroll.
Fractions == {<<1, 20>>, <<1, 2>>, <<3, 4>>, <<1, 1>>, <<3, 2>>}

NoCall == [op |-> "init", ids |-> <<>>, value |-> tuple(0, 0),
           fraction |-> <<0, 1>>, bin |-> <<0, 1>>, half_width |-> <<0, 1>>,
           kernel |-> FALSE, kernel_calls |-> <<>>]

\* No module-level function has been called.
NoFn == [op |-> "none"]

-----------------------------------------------------------------------------
(* Initial state: the view model after construction, without cluster_ids *)

visual_init ==
    [spike_clusters |-> <<>>, cluster_colors |-> <<>>, cluster_ids |-> <<>>,
     cluster_order |-> <<>>, traces |-> <<>>, n_spikes |-> 0, spike_ids |-> <<>>,
     spike_samples |-> <<>>, offset |-> 0, masks |-> <<>>,
     waveforms |-> <<>>, features |-> <<>>,
     _update_clusters_automatically |-> TRUE]

view_init ==
    [cluster_ids |-> <<>>, correlograms |-> <<>>, extra_time |-> <<>>,
     x_dim |-> <<>>, y_dim |-> <<>>]

corr_init ==
    [binsize |-> DefaultBinsize, winsize_bins |-> DefaultWinsizeBins,
     _normalization |-> "equal", _ccgs |-> None]

\* The recordings: spike i belongs to cluster (i - 1) % MaxCluster, and the
\* spike samples are sorted by time: spread from the first to the last sample
\* of the traces, or all at the middle sample.
SpikeSamples ==
    {[i \in Spikes |-> ((i - 1) * (MaxSamples - 1)) \div (NSpikes - 1)],
     [i \in Spikes |-> MaxSamples \div 2]}

Models ==
    {[traces_shape0 |-> MaxSamples, spike_samples |-> ss,
      spike_clusters |-> [i \in Spikes |-> (i - 1) % MaxCluster],
      sample_rate |-> SampleRate] : ss \in SpikeSamples}

DefaultModel == CHOOSE m \in Models : m.spike_samples[1] = 0

Classes == {"html", "trace", "waveform", "feature", "correlogram"}

\* The fields of a view model after construction, without cluster_ids, its
\* correlogram parameters being co.
ConstructedWith(co) ==
    /\ _cluster_ids = None
    /\ selector = Selector_init
    /\ _interval = None
    /\ visual = visual_init
    /\ mean = visual_init
    /\ view = view_init
    /\ corr = co
    /\ faults = 0
    /\ call = NoCall
    /\ raised = "none"
    /\ pushed = <<>>
    /\ on_select_args = <<>>
    /\ fn = NoFn

\* Construction with the parameters of the class.
Constructed == ConstructedWith(corr_init)

\* The state after construction of a view model of one of the classes, the
\* interval_size of a trace view model being one of sizes.
InitOf(classes, sizes) ==
    /\ cls \in classes
    /\ IF cls = "trace"
       THEN model \in Models /\ interval_size \in sizes
       ELSE model = DefaultModel /\ interval_size = 1
    /\ Constructed

-----------------------------------------------------------------------------
(* Actions: the public methods *)

World == <<cls, model, interval_size, fn>>
Untraced == <<view, corr, faults>>

\* select without "self._cluster_ids = cluster_ids".
HtmlSelect_keeps_selection(ids) ==
    /\ cls = "html"
    /\ on_select_args' = <<ids>>
    /\ call' = [NoCall EXCEPT !.op = "select", !.ids = ids]
    /\ raised' = "none"
    /\ pushed' = <<>>
    /\ UNCHANGED <<World, Untraced, _cluster_ids, selector, _interval, visual, mean>>

\* A sequence of cluster ids with a repeated id.
HasDuplicate(ids) ==
    \E i \in DOMAIN ids : \E j \in DOMAIN ids : i < j /\ ids[i] = ids[j]

\* select with a validation of the ids: a sequence with a repeated id is
\* refused before anything is stored.
HtmlSelect_rejects_duplicates(ids) ==
    /\ cls = "html"
    /\ _cluster_ids' = IF HasDuplicate(ids) THEN _cluster_ids ELSE Some(ids)
    /\ on_select_args' = IF HasDuplicate(ids) THEN <<>> ELSE <<ids>>
    /\ call' = [NoCall EXCEPT !.op = "select", !.ids = ids]
    /\ raised' = IF HasDuplicate(ids) THEN "InvalidSelectionError" ELSE "none"
    /\ pushed' = <<>>
    /\ UNCHANGED <<World, Untraced, selector, _interval, visual, mean>>

\* BaseClusterViewModel.select(cluster_ids) on an HTML view model.
HtmlSelect(ids) ==
    /\ cls = "html"
    /\ _cluster_ids' = Some(ids)
    /\ on_select_args' = <<ids>>
    /\ call' = [NoCall EXCEPT !.op = "select", !.ids = ids]
    /\ raised' = "none"
    /\ pushed' = <<>>
    /\ UNCHANGED <<World, Untraced, selector, _interval, visual, mean>>

\* The effect of an interval assignment res on the trace view model.
TraceApply(res) ==
    /\ raised' = res.raised
    /\ _interval' = IF res.stored THEN Some(res.interval) ELSE _interval
    /\ visual' = res.visual
    /\ pushed' = res.pushed

\* VispyViewModel.select(cluster_ids) on a trace view model.
TraceSelect(ids) ==
    /\ cls = "trace"
    /\ selector' = Selector_set_selected_clusters(ids)
    /\ on_select_args' = <<ids>>
    /\ TraceApply(Trace_on_select(visual, ids, selector'.selected_spikes))
    /\ call' = [NoCall EXCEPT !.op = "select", !.ids = ids,
                              !.value = default_interval(selector'.selected_spikes)]
    /\ UNCHANGED <<World, Untraced, _cluster_ids, mean>>

\* view_model.interval = value
SetInterval(value) ==
    /\ cls = "trace"
    /\ TraceApply(interval_setter(visual, value, spike_ids))
    /\ call' = [NoCall EXCEPT !.op = "interval", !.value = value]
    /\ on_select_args' = <<>>
    /\ UNCHANGED <<World, Untraced, _cluster_ids, selector, mean>>

\* TraceViewModel.move(amount), recorded as the public call op.
move(op, amount, fraction) ==
    /\ cls = "trace"
    /\ IF _interval.is_none
       THEN \* start, end = None raises TypeError
            /\ raised' = "TypeError"
            /\ pushed' = <<>>
            /\ call' = [NoCall EXCEPT !.op = op, !.fraction = fraction]
            /\ UNCHANGED <<_interval, visual>>
       ELSE LET start == _interval.val[1]
                end == _interval.val[2]
                value == tuple(start + amount, end + amount)
            IN /\ TraceApply(interval_setter(visual, value, spike_ids))
               /\ call' = [NoCall EXCEPT !.op = op, !.fraction = fraction,
                                         !.value = value]
    /\ on_select_args' = <<>>
    /\ UNCHANGED <<World, Untraced, _cluster_ids, selector, mean>>

Move(amount) == move("move", amount, <<0, 1>>)

width == IF _interval.is_none THEN 0 ELSE _interval.val[2] - _interval.val[1]

\* TraceViewModel.move_right(fraction)
MoveRight(fraction) == move("move_right", move_amount(width, fraction, 1), fraction)

\* TraceViewModel.move_left(fraction)
MoveLeft(fraction) == move("move_left", move_amount(width, fraction, -1), fraction)

\* The selection protocol of every view model, with the trace window set to
\* and moved between intervals inside the traces.
\* The effect of the outcome res of an on_select on the view and its visuals.
Apply(res) ==
    /\ raised' = res.raised
    /\ visual' = res.visual
    /\ mean' = res.mean
    /\ view' = res.view
    /\ pushed' = res.pushed

\* The store gives a faulty answer at most MaxFaults times.
StoreAnswers(resp) ==
    /\ IsFaulty(resp) => faults < MaxFaults
    /\ faults' = IF IsFaulty(resp) THEN faults + 1 ELSE faults

\* VispyViewModel.select(cluster_ids) on a waveform view model.
WaveformSelect(ids, resp) ==
    /\ cls = "waveform"
    /\ StoreAnswers(resp)
    /\ selector' = Selector_set_selected_clusters(ids)
    /\ on_select_args' = <<ids>>
    /\ Apply(Waveform_on_select(visual, mean, ids, selector', resp))
    /\ call' = [NoCall EXCEPT !.op = "select", !.ids = ids]
    /\ UNCHANGED <<World, corr, _cluster_ids, _interval>>

\* VispyViewModel.select(cluster_ids) on a feature view model.
FeatureSelect(ids, resp) ==
    /\ cls = "feature"
    /\ StoreAnswers(resp)
    /\ selector' = Selector_set_selected_clusters(ids)
    /\ on_select_args' = <<ids>>
    /\ Apply(Feature_on_select(visual, view, ids, selector', resp))
    /\ call' = [NoCall EXCEPT !.op = "select", !.ids = ids]
    /\ UNCHANGED <<World, corr, _cluster_ids, _interval>>

\* VispyViewModel.select(cluster_ids) on a correlogram view model.
CorrelogramSelect(ids) ==
    /\ cls = "correlogram"
    /\ selector' = Selector_set_selected_clusters(ids)
    /\ on_select_args' = <<ids>>
    /\ LET res == Correlogram_on_select(visual, view, corr, ids, selector')
       IN /\ Apply(res.outcome)
          /\ corr' = [corr EXCEPT !._ccgs = Some(res._ccgs)]
          /\ call' = [NoCall EXCEPT !.op = "select", !.ids = ids, !.kernel = TRUE,
                                    !.kernel_calls = res.kernel_calls]
    /\ UNCHANGED <<World, faults, _cluster_ids, _interval>>

\* change_bins selecting the clusters again in increasing order.
ChangeBins_sorted_selection(bin, half_width) ==
    /\ cls = "correlogram"
    /\ LET co == change_bins(corr, model.sample_rate, bin, half_width)
           \* self.select(self.cluster_ids)
           ids == np_sort(selector.selected_clusters)
           sel == Selector_set_selected_clusters(ids)
           res == Correlogram_on_select(visual, view, co, ids, sel)
       IN /\ selector' = sel
          /\ on_select_args' = <<ids>>
          /\ Apply(res.outcome)
          /\ corr' = [co EXCEPT !._ccgs = Some(res._ccgs)]
          /\ call' = [NoCall EXCEPT !.op = "change_bins", !.ids = ids,
                                    !.bin = bin, !.half_width = half_width,
                                    !.kernel = TRUE,
                                    !.kernel_calls = res.kernel_calls]
    /\ UNCHANGED <<World, faults, _cluster_ids, _interval>>

\* CorrelogramViewModel.change_bins(bin, half_width)
ChangeBins(bin, half_width) ==
    /\ cls = "correlogram"
    /\ LET co == change_bins(corr, model.sample_rate, bin, half_width)
           \* self.select(self.cluster_ids)
           ids == selector.selected_clusters
           sel == Selector_set_selected_clusters(ids)
           res == Correlogram_on_select(visual, view, co, ids, sel)
       IN /\ selector' = sel
          /\ on_select_args' = <<ids>>
          /\ Apply(res.outcome)
          /\ corr' = [co EXCEPT !._ccgs = Some(res._ccgs)]
          /\ call' = [NoCall EXCEPT !.op = "change_bins", !.ids = ids,
                                    !.bin = bin, !.half_width = half_width,
                                    !.kernel = TRUE,
                                    !.kernel_calls = res.kernel_calls]
    /\ UNCHANGED <<World, faults, _cluster_ids, _interval>>

\* The normalization setter normalizing in the mode it replaces.
set_normalization_stale(op, value) ==
    /\ cls = "correlogram"
    /\ corr' = [corr EXCEPT !._normalization = value]
    /\ IF corr._ccgs.is_none
       THEN /\ raised' = "TypeError"
            /\ pushed' = <<>>
            /\ UNCHANGED view
       ELSE /\ raised' = "none"
            /\ view' = [view EXCEPT !.correlograms =
                            _normalize(corr._ccgs.val, corr._normalization)]
            /\ pushed' = <<Snapshot(visual, mean, view')>>
    /\ call' = [NoCall EXCEPT !.op = op]
    /\ on_select_args' = <<>>
    /\ UNCHANGED <<World, faults, _cluster_ids, _interval, selector, visual, mean>>

\* view_model.normalization = value, recorded as the public call op. The
\* correlograms of the view are those of its visual.
set_normalization(op, value) ==
    /\ cls = "correlogram"
    /\ corr' = [corr EXCEPT !._normalization = value]
    /\ IF corr._ccgs.is_none
       THEN \* len(None) raises TypeError in _normalize
            /\ raised' = "TypeError"
            /\ pushed' = <<>>
            /\ UNCHANGED view
       ELSE /\ raised' = "none"
            /\ view' = [view EXCEPT
                            !.correlograms = _normalize(corr._ccgs.val, value)]
            /\ pushed' = <<Snapshot(visual, mean, view')>>
    /\ call' = [NoCall EXCEPT !.op = op]
    /\ on_select_args' = <<>>
    /\ UNCHANGED <<World, faults, _cluster_ids, _interval, selector, visual, mean>>

Normalizations == {"equal", "independent"}

SetNormalization(value) == set_normalization("normalization", value)

\* CorrelogramViewModel.toggle_normalization()
ToggleNormalization ==
    set_normalization("toggle_normalization",
                      IF corr._normalization = "independent" THEN "equal"
                      ELSE "independent")

WaveformResponses ==
    StoreResponses({"waveforms", "mean_waveforms", "mean_masks", "masks"},
                   {"raise", "bad_shape"})

FeatureResponses ==
    StoreResponses({"features", "masks"}, {"raise", "bad_shape"})

Next ==
    \/ \E ids \in Selections : HtmlSelect(ids)
    \/ \E ids \in Selections : TraceSelect(ids)
    \/ \E ids \in Selections : \E resp \in WaveformResponses : WaveformSelect(ids, resp)
    \/ \E ids \in Selections : \E resp \in FeatureResponses : FeatureSelect(ids, resp)
    \/ \E ids \in Selections : CorrelogramSelect(ids)
    \/ \E value \in InsideValues(model.traces_shape0) : SetInterval(value)
    \/ \E amount \in {-1, 1} : Move(amount)
    \/ MoveRight(<<1, 1>>)
    \/ MoveLeft(<<1, 1>>)

\* Every class; the trace window is at least two samples wide
\* (interval_size * sample_rate >= 2).
Init == InitOf(Classes, 1..MaxIntervalNum)

Spec == Init /\ [][Next]_vars

\* The trace windowing engine under every interval value, amount and fraction
\* and every interval_size from 0, with selections of at most one cluster.
InitInterval ==
    /\ InitOf({"trace"}, 0..MaxIntervalNum)
    /\ model = DefaultModel

NextInterval ==
    \/ \E ids \in SeqUpTo(Clusters, 1) : TraceSelect(ids)
    \/ \E value \in IntervalValues(model.traces_shape0) : SetInterval(value)
    \/ \E amount \in Amounts(model.traces_shape0) : Move(amount)
    \/ \E fraction \in Fractions : MoveRight(fraction)
    \/ \E fraction \in Fractions : MoveLeft(fraction)

SpecInterval == InitInterval /\ [][NextInterval]_vars

\* The sample rates of the correlogram view models: one where the smallest
\* bin (1 ms) is one sample, and 20 kHz.
SampleRates == {100 * SampleRate, 20000}

\* The (bin, half_width) pairs of change_bins, in ms: the defaults
\* (1, 20.5), values below the lowest and above the highest duration, bins of
\* 1.7 and 1.03 ms, a half width below the bin and one equal to it. The
\* largest bin is tried at the sample rates where sr * 1e6 is below 2^31.
BinChanges(sr) ==
    {<<(<<1, 1>>), (<<41, 2>>)>>,
     <<(<<1, 2>>), (<<1, 2>>)>>,
     <<(<<17, 10>>), (<<7, 2>>)>>,
     <<(<<103, 100>>), (<<3, 1>>)>>,
     <<(<<100, 1>>), (<<1, 1>>)>>,
     <<(<<3, 1>>), (<<3, 1>>)>>}
    \cup (IF sr <= 2000
          THEN {<<(<<2000000000, 1>>), (<<2000000000, 1>>)>>}
          ELSE {})

\* The correlogram view model: selections, changes of the bins and of the
\* normalization.
\* The recordings of the correlogram view models: one spike more, the first
\* at sample 0 and the others together at sample 1.
CorrelogramModels ==
    {[traces_shape0 |-> MaxSamples,
      spike_samples |-> [i \in 1..(NSpikes + 1) |-> Min(i - 1, 1)],
      spike_clusters |-> [i \in 1..(NSpikes + 1) |-> (i - 1) % MaxCluster],
      sample_rate |-> sr] : sr \in SampleRates}

InitCorrelogram ==
    /\ cls = "correlogram"
    /\ model \in CorrelogramModels
    /\ interval_size = 1
    /\ Constructed

NextCorrelogram ==
    \/ \E ids \in Selections : CorrelogramSelect(ids)
    \/ \E c \in BinChanges(model.sample_rate) : ChangeBins(c[1], c[2])
    \/ \E value \in Normalizations : SetNormalization(value)
    \/ ToggleNormalization

SpecCorrelogram == InitCorrelogram /\ [][NextCorrelogram]_vars

\* The values of winsize_bins given at construction (imported parameters):
\* even and odd ones, the default included.
ImportedWinsizes == {0, 4, DefaultWinsizeBins - 1, DefaultWinsizeBins}

\* The correlogram view model constructed with an imported winsize_bins.
InitImported ==
    /\ cls = "correlogram"
    /\ model \in CorrelogramModels
    /\ interval_size = 1
    /\ \E w \in ImportedWinsizes :
          ConstructedWith([corr_init EXCEPT !.winsize_bins = w])

NextImported ==
    \/ \E ids \in Selections : CorrelogramSelect(ids)
    \/ \E c \in BinChanges(model.sample_rate) : ChangeBins(c[1], c[2])

SpecImported == InitImported /\ [][NextImported]_vars

\* The counts of a raw correlogram: 0..MaxCount, and 49, the smallest count
\* whose product with its reciprocal is not 1.0.
Counts == (0..MaxCount) \cup {49}

\* The tensors the histogram kernel can return: no cluster, one cluster with
\* 1 or 2 lag bins from lag 0, two clusters with 1 lag bin.
KernelTensors ==
    UNION {[1..s[1] -> [1..s[1] -> [1..s[2] -> Counts]]] :
               s \in {<<0, 1>>, <<1, 1>>, <<1, 2>>, <<2, 1>>}}

\* self._normalize(self._ccgs) on the symmetrized tensor of raw, in the mode
\* normalization.
Normalize(raw, normalization) ==
    /\ cls = "correlogram"
    /\ fn = NoFn
    /\ LET ccgs == _symmetrize_correlograms(raw)
       IN fn' = [op |-> "_normalize", ccgs |-> ccgs, normalization |-> normalization,
                 result |-> _normalize(ccgs, normalization)]
    /\ UNCHANGED <<cls, model, interval_size, _cluster_ids, selector, _interval,
                   visual, mean, view, corr, faults, call, raised, pushed,
                   on_select_args>>

\* The channels given to _dimensions.
GridChannels == {3, 5, 7, 9}

\* _dimensions(x_channels, y_channels)
Dimensions(x_channels, y_channels) ==
    /\ cls = "feature"
    /\ fn = NoFn
    /\ fn' = [op |-> "_dimensions", x_channels |-> x_channels,
              y_channels |-> y_channels,
              result |-> _dimensions(x_channels, y_channels)]
    /\ UNCHANGED <<cls, model, interval_size, _cluster_ids, selector, _interval,
                   visual, mean, view, corr, faults, call, raised, pushed,
                   on_select_args>>

\* What store.mean_features(cluster) returns: one value per feature of
\* n_channels - 1 or n_channels channels.
MeanFeatures ==
    UNION {[1..(n * n_features_per_channel) -> 0..MaxScore] :
               n \in {n_channels - 1, n_channels}}

\* _best_channels(cluster, model=..., store=...)
BestChannels(mean_features) ==
    /\ cls = "feature"
    /\ fn = NoFn
    /\ \E order \in argsort(row_sums(mean_features)) :
          fn' = [op |-> "_best_channels", score |-> row_sums(mean_features),
                 result |-> _best_channels(mean_features, order)]
    /\ UNCHANGED <<cls, model, interval_size, _cluster_ids, selector, _interval,
                   visual, mean, view, corr, faults, call, raised, pushed,
                   on_select_args>>

\* The mean features of a cluster over n_channels channels: all equal,
\* growing with the channel, or decreasing with it.
GridMeans ==
    LET channel(i) == (i - 1) \div n_features_per_channel
        D == 1..(n_channels * n_features_per_channel)
    IN {[i \in D |-> 0],
        [i \in D |-> Min(channel(i), MaxScore)],
        [i \in D |-> Min(n_channels - 1 - channel(i), MaxScore)]}

\* FeatureGridViewModel.dimensions_for_clusters(ids) on a view of n_features
\* features (n_rows = n_features + 1), means_first and means_second being
\* store.mean_features of the clusters given to _best_channels. The same
\* cluster gets the same channels in both calls of _best_channels.
DimensionsForClusters(ids, means_first, means_second, n_features) ==
    /\ cls = "feature"
    /\ fn = NoFn
    /\ LET n == Len(ids)
           c_first == IF n = 0 THEN 0 ELSE ids[1]
           c_second == IF n = 0 THEN 0 ELSE ids[Min(1, n - 1) + 1]
       IN /\ c_first = c_second => means_first = means_second
          /\ \E o_first \in argsort(row_sums(means_first)) :
                \E o_second \in argsort(row_sums(means_second)) :
                   /\ c_first = c_second => o_first = o_second
                   /\ LET best == [c \in Clusters |->
                                     IF c = c_first
                                     THEN _best_channels(means_first, o_first)
                                     ELSE _best_channels(means_second, o_second)]
                      IN fn' = [op |-> "dimensions_for_clusters", ids |-> ids,
                                n_rows |-> n_features + 1,
                                result |-> dimensions_for_clusters(
                                               ids, best, n_features + 1)]
    /\ UNCHANGED <<cls, model, interval_size, _cluster_ids, selector, _interval,
                   visual, mean, view, corr, faults, call, raised, pushed,
                   on_select_args>>

\* The module-level and pure functions, each applied once to every input of
\* a bounded set.
InitFunctions == InitOf({"correlogram", "feature"}, {1})

NextFunctions ==
    \/ \E raw \in KernelTensors : \E mode \in Normalizations : Normalize(raw, mode)
    \/ \E x_channels \in SeqUpTo(GridChannels, MaxGridLen) :
          \E y_channels \in SeqUpTo(GridChannels, MaxGridLen) :
             Dimensions(x_channels, y_channels)
    \/ \E mean_features \in MeanFeatures : BestChannels(mean_features)
    \/ \E ids \in Selections : \E means_first \in GridMeans :
          \E means_second \in GridMeans : \E n_features \in 1..MaxGridLen :
             DimensionsForClusters(ids, means_first, means_second, n_features)

SpecFunctions == InitFunctions /\ [][NextFunctions]_vars

-----------------------------------------------------------------------------
(* Claims about the trace interval *)

TraceOps == {"select", "interval", "move", "move_left", "move_right"}
IntervalOps == {"interval", "move", "move_left", "move_right"}

\* The interval the last call requested, when it is a pair.
IsPair == call.value.is_tuple /\ Len(call.value.elems) = 2
ReqStart == call.value.elems[1]
ReqEnd == call.value.elems[2]
ReqWidth == ReqEnd - ReqStart
TotalSamples == model.traces_shape0

\* C1: whatever call is made (failing calls included), a stored interval
\* satisfies 0 <= start < end <= totalSamples, and the stored interval changes
\* only in a call that went through the setter without raising, to an interval
\* whose width is the requested width capped at totalSamples.
C1_IntervalInRange ==
    [][/\ ~_interval'.is_none =>
            /\ 0 <= _interval'.val[1]
            /\ _interval'.val[1] < _interval'.val[2]
            /\ _interval'.val[2] <= TotalSamples
       /\ _interval' # _interval =>
            /\ call'.op \in TraceOps
            /\ raised' = "none"
            /\ call'.value.is_tuple /\ Len(call'.value.elems) = 2
            /\ _interval'.val[2] - _interval'.val[1]
                   = Min(call'.value.elems[2] - call'.value.elems[1], TotalSamples)]_vars

\* C1 witness: an interval is stored and a later call failed.
C1_Witness == ~_interval.is_none /\ raised # "none" /\ call.op \in TraceOps

\* The interval C2 expects for the request (start, end).
C2_Expected ==
    IF ReqStart < 0 THEN <<0, ReqWidth>>
    ELSE IF ReqEnd >= TotalSamples THEN <<TotalSamples - ReqWidth, TotalSamples>>
    ELSE <<ReqStart, ReqEnd>>

\* C2: an assignment or a move that requests (start, end) with end > start and
\* end - start <= totalSamples does not raise and stores the interval of the
\* same width that starts at 0 if start < 0, ends at totalSamples if
\* end >= totalSamples, and is (start, end) otherwise.
C2_ClampKeepsWidth ==
    (call.op \in IntervalOps /\ IsPair /\ ReqEnd > ReqStart /\ ReqWidth <= TotalSamples)
        => /\ raised = "none"
           /\ _interval = Some(C2_Expected)
           /\ _interval.val[2] - _interval.val[1] = ReqWidth

\* C2 witness: a move past the right boundary was clamped.
C2_Witness ==
    /\ call.op = "move" /\ IsPair /\ ReqEnd > TotalSamples
    /\ ReqWidth <= TotalSamples /\ raised = "none"

\* C3 as stated: a request of width at most totalSamples never fails the
\* assertion of the setter.
C3_AnyWidthUpToTotal ==
    (call.op \in TraceOps /\ IsPair /\ ReqWidth <= TotalSamples)
        => raised # "AssertionError"

\* C3 amended: a request of width at least 1 and at most totalSamples never
\* fails the assertion of the setter, the requests of on_select included.
C3_PositiveWidthUpToTotal ==
    (call.op \in TraceOps /\ IsPair /\ 0 < ReqWidth /\ ReqWidth <= TotalSamples)
        => raised # "AssertionError"

\* C3 witness: on_select requested an interval that reaches below sample 0,
\* and it was stored.
C3_Witness ==
    /\ call.op = "select" /\ ReqStart < 0 /\ 0 < ReqWidth
    /\ ReqWidth <= TotalSamples /\ raised = "none"

\* C4: assigning the stored interval again stores exactly that interval.
C4_SetterIdempotent ==
    [][(/\ call'.op = "interval"
        /\ ~_interval.is_none
        /\ call'.value = tuple(_interval.val[1], _interval.val[2]))
           => (raised' = "none" /\ _interval' = _interval)]_vars

\* C4 witness: an assignment stored exactly the interval it was given, at the
\* right boundary of the traces.
C4_Witness ==
    /\ call.op = "interval" /\ raised = "none" /\ IsPair
    /\ _interval = Some(<<ReqStart, ReqEnd>>) /\ ReqEnd = TotalSamples

\* C5 as stated: a value that has not exactly two values is rejected before any
\* state change, and every value of exactly two integers is accepted by the
\* shape test.
C5_TwoValuesAccepted ==
    [][call'.op = "interval" =>
          /\ Len(call'.value.elems) # 2 =>
                /\ raised' = "ValueError"
                /\ UNCHANGED <<_interval, visual>>
                /\ pushed' = <<>>
          /\ Len(call'.value.elems) = 2 => raised' # "ValueError"]_vars

\* C5 amended: a value that is not a tuple of exactly two values is rejected
\* with ValueError before any state change (interval and visual unchanged, no
\* view update), and every tuple of exactly two integers passes the shape test.
C5_TuplePairAccepted ==
    [][call'.op = "interval" =>
          /\ ~(call'.value.is_tuple /\ Len(call'.value.elems) = 2) =>
                /\ raised' = "ValueError"
                /\ UNCHANGED <<_interval, visual>>
                /\ pushed' = <<>>
          /\ (call'.value.is_tuple /\ Len(call'.value.elems) = 2)
                => raised' # "ValueError"]_vars

\* C5 witness: a value of three values was rejected while an interval and
\* rendered spikes were in place.
C5_Witness ==
    /\ call.op = "interval" /\ Len(call.value.elems) = 3 /\ raised = "ValueError"
    /\ ~_interval.is_none /\ visual.n_spikes > 0

-----------------------------------------------------------------------------
(* Claims about the selection protocol *)

\* The rendering fields C6 names, of the visual and of the mean visual.
RenderedFields(v, m) ==
    <<v.spike_clusters, v.cluster_colors, v.cluster_order, v.waveforms,
      v.features, v.masks, v.spike_ids,
      m.spike_clusters, m.cluster_colors, m.cluster_order, m.waveforms,
      m.masks, m.spike_ids>>

\* C6: a select of the waveform or feature view model that fails (a load of
\* the store raises, or a loaded array has the wrong shape) leaves every
\* rendering field as it was before the call.
C6_FailedSelectKeepsRendering ==
    [][(call'.op = "select" /\ cls \in {"waveform", "feature"} /\ raised' # "none")
           => RenderedFields(visual', mean') = RenderedFields(visual, mean)]_vars

VispyClasses == {"correlogram", "waveform", "trace", "feature"}

\* C7: a select that returns has invoked view.update() exactly once, and
\* what that update has drawn is the final state of the rendering fields (no
\* field is assigned after it).
C7_OneUpdateAfterAllFields ==
    (call.op = "select" /\ cls \in VispyClasses /\ raised = "none")
        => (Len(pushed) = 1 /\ pushed[1] = Snapshot(visual, mean, view))

\* C8: on the trace view, select([]) does not raise and leaves spike_ids,
\* n_spikes, spike_clusters, spike_samples, masks and cluster_ids empty / zero.
C8_EmptySelectionClearsTraceView ==
    (call.op = "select" /\ cls = "trace" /\ call.ids = <<>>)
        => /\ raised = "none"
           /\ visual.spike_ids = <<>>
           /\ visual.n_spikes = 0
           /\ visual.spike_clusters = <<>>
           /\ visual.spike_samples = <<>>
           /\ visual.masks = <<>>
           /\ visual.cluster_ids = <<>>

\* C9: after select(ids) has returned, cluster_ids is ids, in the same order,
\* and on_select has been invoked exactly once, with ids.
C9_SelectReplacesSelection ==
    (call.op = "select" /\ raised = "none")
        => (cluster_ids = Some(call.ids) /\ on_select_args = <<call.ids>>)

\* C9 witness: a selection of two clusters in descending order replaced
\* another selection on an HTML view model.
C9_Witness ==
    /\ call.op = "select" /\ raised = "none" /\ cls = "html"
    /\ call.ids = <<1, 0>> /\ _cluster_ids = Some(<<1, 0>>)

\* C10: before any select() call, cluster_ids is an empty sequence and
\* n_clusters is 0.
C10_EmptySelectionAtConstruction ==
    call.op = "init"
        => (cluster_ids = Some(<<>>) /\ n_clusters = [raised |-> "none", value |-> 0])

\* C11 as stated: a select with a repeated cluster id raises an
\* invalid-selection error and leaves the selection and the rendered state as
\* they were.
C11_DuplicateIdsRejected ==
    [][(call'.op = "select" /\ HasDuplicate(call'.ids))
           => /\ raised' = "InvalidSelectionError"
              /\ _cluster_ids' = _cluster_ids
              /\ selector' = selector
              /\ visual' = visual /\ mean' = mean /\ view' = view]_vars

\* C11 amended: select does not validate the ids. A sequence with a repeated
\* id never raises an invalid-selection error: it becomes the selection as it
\* is, on_select is invoked once with it, and the call returns unless the
\* store fails.
C11_DuplicateIdsAccepted ==
    (call.op = "select" /\ HasDuplicate(call.ids))
        => /\ raised # "InvalidSelectionError"
           /\ cluster_ids = Some(call.ids)
           /\ on_select_args = <<call.ids>>
           /\ (cls \notin {"waveform", "feature"} \/ faults = 0) => raised = "none"

\* C11 witness: select([0, 0]) on an HTML view model returned and [0, 0] is
\* the selection.
C11_Witness ==
    /\ call.op = "select" /\ cls = "html" /\ raised = "none"
    /\ call.ids = <<0, 0>> /\ _cluster_ids = Some(<<0, 0>>)

-----------------------------------------------------------------------------
(* Claims about the default interval and the moves of the trace view *)

\* floor(interval_size * sampleRate / 2), interval_size being counted in
\* 1/IntervalSizeDen seconds.
HalfWindow ==
    CHOOSE h \in 0..(interval_size * model.sample_rate) :
        /\ 2 * IntervalSizeDen * h <= interval_size * model.sample_rate
        /\ interval_size * model.sample_rate < 2 * IntervalSizeDen * (h + 1)

\* The spikes of the clusters of the last call, over the whole recording.
SubsetOfCall ==
    {s \in Spikes : \E i \in DOMAIN call.ids : call.ids[i] = model.spike_clusters[s]}

FirstOf(subset) == CHOOSE s \in subset : \A t \in subset : s <= t

\* The centre of the default interval.
CentreOfCall ==
    IF SubsetOfCall # {} THEN model.spike_samples[FirstOf(SubsetOfCall)]
    ELSE HalfWindow

RequestIsCentred ==
    call.value = tuple(CentreOfCall - HalfWindow, CentreOfCall + HalfWindow)

\* C12 as stated: a select on the trace view requests [s - h, s + h), s being
\* the sample of the first spike of the subset or h when the subset is empty,
\* and with an empty subset the stored interval is [0, 2h).
C12_EmptySubsetStoresTwoHalf ==
    (call.op = "select" /\ cls = "trace")
        => /\ RequestIsCentred
           /\ SubsetOfCall = {} => _interval = Some(<<0, 2 * HalfWindow>>)

\* C12 amended: the request is [s - h, s + h) as stated; with an empty subset
\* the stored interval is [0, min(2h, totalSamples)) when h >= 1, and when
\* h = 0 the request [0, 0) fails the assertion of the setter.
C12_EmptySubsetStoresClampedTwoHalf ==
    (call.op = "select" /\ cls = "trace")
        => /\ RequestIsCentred
           /\ (SubsetOfCall = {} /\ HalfWindow >= 1)
                 => /\ raised = "none"
                    /\ _interval = Some(<<0, Min(2 * HalfWindow, TotalSamples)>>)
           /\ (SubsetOfCall = {} /\ HalfWindow = 0) => raised = "AssertionError"

\* C12 witness: a select of a cluster without spikes, with h = 1, returned
\* and stored [0, 2).
C12_Witness ==
    /\ call.op = "select" /\ cls = "trace" /\ call.ids = <<MaxCluster>>
    /\ HalfWindow = 1 /\ raised = "none" /\ _interval = Some(<<0, 2>>)
    /\ visual.cluster_ids = <<MaxCluster>>

\* a is an integer nearest to w * fraction (either neighbour on a tie).
IsNearest(a, w, fraction) ==
    LET diff == a * fraction[2] - w * fraction[1]
    IN 2 * (IF diff >= 0 THEN diff ELSE -diff) <= fraction[2]

\* C13: a move_right(fraction) that needs no clamping shifts the interval by
\* fraction * (end - start) rounded to the nearest integer, and move_left by
\* the negative of that amount; the width is kept.
C13_MoveByNearestAmount ==
    [][(call'.op \in {"move_right", "move_left"} /\ ~_interval.is_none
            /\ raised' = "none")
         => LET sign == IF call'.op = "move_right" THEN 1 ELSE -1
                start == _interval.val[1]
                end == _interval.val[2]
                shift == _interval'.val[1] - start
                Inside(a) == 0 <= start + sign * a /\ end + sign * a <= TotalSamples
            IN (\E a \in 0..(2 * (end - start)) :
                    IsNearest(a, end - start, call'.fraction) /\ Inside(a))
                  => /\ IsNearest(sign * shift, end - start, call'.fraction)
                     /\ _interval'.val[2] - end = shift]_vars

-----------------------------------------------------------------------------
(* Claims about the correlogram pipeline *)

\* A duration given in ms, converted to seconds and clamped to [0.001, 1e6].
ClampedSeconds(ms) ==
    IF ms[1] < ms[2] THEN <<1, 1000>>
    ELSE IF ms[1] \div ms[2] >= 1000000000 THEN <<1000000, 1>>
    ELSE <<ms[1], 1000 * ms[2]>>

\* C14: after change_bins(binMs, halfWidthMs), binsize is
\* sampleRate * binSeconds rounded to the nearest integer, binSeconds being
\* binMs / 1000 clamped to [0.001, 1e6].
C14_BinsizeRounded ==
    call.op = "change_bins"
        => IsNearest(corr.binsize, model.sample_rate, ClampedSeconds(call.bin))

EntriesOf(t) == {t[i][j][k] : <<i, j, k>> \in
                    {<<i, j, k>> \in (DOMAIN t) \X (DOMAIN t) \X (1..3) :
                         k \in DOMAIN t[i][j]}}
SliceOf(t, i, j) == {t[i][j][k] : k \in DOMAIN t[i][j]}

\* d is max(1, the largest of entries).
IsFlooredMax(d, entries) ==
    /\ d >= 1
    /\ \A e \in entries : e <= d
    /\ d = 1 \/ d \in entries

\* The divisors and the exact quotients of C16: every entry [i, j, k] is the
\* raw entry over max(1, global maximum) in 'equal' mode and over
\* max(1, maximum of [i, j, :]) in 'independent' mode; the divisor is at least
\* 1 and no quotient is above 1.
DividedByFlooredMax ==
    \A i \in DOMAIN fn.ccgs : \A j \in DOMAIN fn.ccgs :
        \A k \in DOMAIN fn.ccgs[i][j] :
            LET count == fn.result[i][j][k][1]
                divisor == fn.result[i][j][k][2]
            IN /\ count = fn.ccgs[i][j][k]
               /\ divisor >= 1
               /\ count <= divisor
               /\ IF fn.normalization = "equal"
                  THEN IsFlooredMax(divisor, EntriesOf(fn.ccgs))
                  ELSE IsFlooredMax(divisor, SliceOf(fn.ccgs, i, j))

ResultEntries == EntriesOf(fn.result)

\* C16 as stated: normalizing a non-empty tensor divides as above, and in
\* 'equal' mode the largest normalized entry is exactly 1 when some raw entry
\* is at least 1.
C16_EqualMaximumIsOne ==
    (fn.op = "_normalize" /\ Len(fn.ccgs) > 0)
        => /\ DividedByFlooredMax
           /\ (fn.normalization = "equal" /\ \E e \in EntriesOf(fn.ccgs) : e >= 1)
                 => \E entry \in ResultEntries : normalized_is_one(entry)

\* C16 amended: normalizing a non-empty tensor divides as above, and in
\* 'equal' mode, when some raw entry is at least 1, the largest normalized
\* entry is the maximum times the reciprocal of itself, which is 1 in exact
\* arithmetic and at most 1 as computed.
C16_NormalizeDividesByFlooredMax ==
    (fn.op = "_normalize" /\ Len(fn.ccgs) > 0)
        => /\ DividedByFlooredMax
           /\ (fn.normalization = "equal" /\ \E e \in EntriesOf(fn.ccgs) : e >= 1)
                 => \E entry \in ResultEntries : entry[1] = entry[2]

\* C16 witness: a tensor of two clusters normalized in 'independent' mode,
\* one slice divided by 2 and another, all zero, by 1.
C16_Witness ==
    /\ fn.op = "_normalize" /\ fn.normalization = "independent"
    /\ Len(fn.ccgs) = 2
    /\ fn.result[1][2][1][2] = 2
    /\ fn.result[1][1][1] = <<0, 1>>

\* The entries of the tensor t normalized in the mode normalization, and the
\* divisors of nt, a normalization of t, are those of that mode.
IsNormalizationOf(nt, t, normalization) ==
    /\ DOMAIN nt = DOMAIN t
    /\ \A i \in DOMAIN t : \A j \in DOMAIN t :
          /\ DOMAIN nt[i][j] = DOMAIN t[i][j]
          /\ \A k \in DOMAIN t[i][j] :
                /\ nt[i][j][k][1] = t[i][j][k]
                /\ IsFlooredMax(nt[i][j][k][2],
                                IF normalization = "equal"
                                THEN UNION {SliceOf(t, a, b) :
                                               <<a, b>> \in (DOMAIN t) \X (DOMAIN t)}
                                ELSE SliceOf(t, i, j))

NormalizationOps == {"normalization", "toggle_normalization"}

\* C17: a change or a toggle of the normalization does not call the
\* histogram kernel and leaves the cached symmetrized tensor as it is; when a
\* tensor is cached, the correlograms displayed afterwards are that tensor
\* normalized in the new mode, which is what a select of the same clusters in
\* that mode displays; a toggle switches between the two modes.
C17_NormalizationFromCache ==
    [][call'.op \in NormalizationOps
         => /\ ~call'.kernel
            /\ corr'._ccgs = corr._ccgs
            /\ corr'.binsize = corr.binsize /\ corr'.winsize_bins = corr.winsize_bins
            /\ call'.op = "toggle_normalization"
                  => {corr._normalization, corr'._normalization} = Normalizations
            /\ ~corr._ccgs.is_none
                  => /\ raised' = "none"
                     /\ IsNormalizationOf(view'.correlograms, corr._ccgs.val,
                                          corr'._normalization)
                     /\ view'.correlograms =
                            Correlogram_on_select(visual', view', corr',
                                selector'.selected_clusters,
                                selector').outcome.view.correlograms]_vars

\* C17 witness: a toggle to 'independent' with two clusters selected; the
\* cached tensor holds a 2 and a slice whose maximum is 1, which is displayed
\* over 1 and was displayed over 2 before.
C17_Witness ==
    /\ call.op = "toggle_normalization" /\ raised = "none"
    /\ corr._normalization = "independent"
    /\ selector.selected_clusters = <<0, 1>>
    /\ \E k \in DOMAIN corr._ccgs.val[1][2] : corr._ccgs.val[1][2][k] = 2
    /\ \E k \in DOMAIN view.correlograms[1][1] : view.correlograms[1][1][k] = <<1, 1>>

-----------------------------------------------------------------------------
(* Claims about the feature grid *)

GridSize == Len(fn.x_channels)

IsExample == fn.op = "_dimensions" /\ fn.x_channels = <<3, 5>> /\ fn.y_channels = <<7, 9>>

\* C19 as stated: for xChannels = [3, 5] and yChannels = [7, 9], xDim[1,1] is
\* (3, 0), yDim[1,1] is (7, 0), xDim[2,2] is (3, 1), yDim[2,2] is (9, 1), and
\* (0, 0) is 'time' on both axes.
C19_ExampleAsStated ==
    IsExample
        => /\ fn.result.x_dim[<<1, 1>>] = Dim(3, 0)
           /\ fn.result.y_dim[<<1, 1>>] = Dim(7, 0)
           /\ fn.result.x_dim[<<2, 2>>] = Dim(3, 1)
           /\ fn.result.y_dim[<<2, 2>>] = Dim(9, 1)
           /\ fn.result.x_dim[<<0, 0>>] = Time
           /\ fn.result.y_dim[<<0, 0>>] = Time

\* C19 amended: for xChannels = [3, 5] and yChannels = [7, 9], xDim[1,1] is
\* (3, 0), yDim[1,1] is (7, 0), xDim[2,2] is (5, 1), yDim[2,2] is (9, 1), and
\* (0, 0) is 'time' on both axes.
C19_Example ==
    IsExample
        => /\ fn.result.x_dim[<<1, 1>>] = Dim(3, 0)
           /\ fn.result.y_dim[<<1, 1>>] = Dim(7, 0)
           /\ fn.result.x_dim[<<2, 2>>] = Dim(5, 1)
           /\ fn.result.y_dim[<<2, 2>>] = Dim(9, 1)
           /\ fn.result.x_dim[<<0, 0>>] = Time
           /\ fn.result.y_dim[<<0, 0>>] = Time

\* C19 witness: _dimensions([3, 5], [7, 9]) has returned.
C19_Witness ==
    IsExample /\ fn.result.raised = "none" /\ fn.result.x_dim[<<2, 1>>] = Dim(5, 0)

\* C20: _best_channels returns the channels by descending mean feature, and
\* channels of equal mean in ascending order of their index.
C20_StableDescending ==
    (fn.op = "_best_channels" /\ fn.result.raised = "none")
        => LET ch == fn.result.channels
           IN /\ {ch[i] : i \in DOMAIN ch} = 0..(n_channels - 1)
              /\ \A i \in DOMAIN ch : \A j \in DOMAIN ch :
                    i < j => \/ fn.score[ch[i] + 1] > fn.score[ch[j] + 1]
                             \/ /\ fn.score[ch[i] + 1] = fn.score[ch[j] + 1]
                                /\ ch[i] < ch[j]

-----------------------------------------------------------------------------
(* Claims about the consistency of the views *)

\* C21: after a select that returned, on every view model, the cluster order
\* of the view is the selection and there is one colour per selected
\* cluster, colour index i for the i-th cluster of the selection, also when a
\* selected cluster has no spike in the spike subset.
C21_OneColourPerSelectedCluster ==
    (call.op = "select" /\ cls \in VispyClasses /\ raised = "none"
        /\ ~HasDuplicate(call.ids))
        => /\ visual.cluster_order = call.ids
           /\ visual.cluster_colors = _selected_clusters_colors(Len(call.ids))

-----------------------------------------------------------------------------
(* Claims about the spikes rendered in the trace window *)

\* The spikes of the selected clusters whose sample is in the stored interval,
\* in spike (time) order.
SpikesInWindow ==
    LET InWindow(s) ==
            /\ \E i \in DOMAIN selector.selected_clusters :
                  selector.selected_clusters[i] = model.spike_clusters[s]
            /\ _interval.val[1] <= model.spike_samples[s]
            /\ model.spike_samples[s] < _interval.val[2]
    IN SelectSeq(AllSpikes, InWindow)

\* C22: after every interval assignment of the trace view that succeeded (in
\* a select, an assignment or a move), the rendered spike_ids are exactly the
\* spikes of the selection whose sample s satisfies start <= s < end, in time
\* order; when there is one, the rendered spike_samples are s - start, each in
\* [0, end - start), and offset is start.
C22_RenderedSpikesInWindow ==
    (cls = "trace" /\ call.op \in TraceOps /\ raised = "none")
        => LET start == _interval.val[1]
               end == _interval.val[2]
           IN /\ visual.spike_ids = SpikesInWindow
              /\ visual.n_spikes = Len(SpikesInWindow)
              /\ IsSorted(Take(model.spike_samples, visual.spike_ids))
              /\ SpikesInWindow # <<>> =>
                    /\ visual.spike_samples =
                          [i \in DOMAIN SpikesInWindow |->
                              model.spike_samples[SpikesInWindow[i]] - start]
                    /\ \A i \in DOMAIN visual.spike_samples :
                          visual.spike_samples[i] \in 0..(end - start - 1)
                    /\ visual.offset = start

\* C22 witness: two spikes are selected and an assignment of an interval
\* that starts after sample 0 has rendered the second one only.
C22_Witness ==
    /\ cls = "trace" /\ call.op = "interval" /\ raised = "none"
    /\ Len(spike_ids) = 2 /\ _interval.val[1] > 0
    /\ visual.spike_ids = <<2>> /\ visual.offset = _interval.val[1]
    /\ visual.spike_samples = <<model.spike_samples[2] - _interval.val[1]>>

\* C23: an interval assignment that succeeds and leaves no selected spike in
\* [start, end) refreshes the traces, n_spikes (0) and spike_ids (empty) only:
\* spike_samples, offset and masks keep the values they had before the call,
\* and so does spike_clusters (in a select, the value on_select gave it before
\* assigning the interval); an assignment or a move changes no other field.
C23_EmptyWindowKeepsSpikeFields ==
    [][(cls = "trace" /\ call'.op \in TraceOps /\ raised' = "none"
            /\ SpikesInWindow' = <<>>)
         => /\ visual'.traces = _interval'.val
            /\ visual'.n_spikes = 0
            /\ visual'.spike_ids = <<>>
            /\ visual'.spike_samples = visual.spike_samples
            /\ visual'.offset = visual.offset
            /\ visual'.masks = visual.masks
            /\ visual'.spike_clusters =
                  IF call'.op = "select"
                  THEN Take(model.spike_clusters, selector'.selected_spikes)
                  ELSE visual.spike_clusters
            /\ call'.op \in IntervalOps =>
                  visual' = [visual EXCEPT !.traces = _interval'.val,
                                           !.n_spikes = 0,
                                           !.spike_ids = <<>>]]_vars

\* C23 witness: an assignment has left no spike in the window while the
\* samples, the offset and the masks of an earlier window are still there.
C23_Witness ==
    /\ cls = "trace" /\ call.op = "interval" /\ raised = "none"
    /\ SpikesInWindow = <<>> /\ visual.n_spikes = 0 /\ visual.spike_ids = <<>>
    /\ visual.spike_samples # <<>> /\ visual.masks # <<>>
    /\ visual.offset > 0 /\ visual.offset # _interval.val[1]

\* C26: on the trace view, after every select, interval assignment or move
\* that returned, spike_ids, spike_clusters, spike_samples and masks all have
\* n_spikes entries.
C26_SpikeFieldsSameLength ==
    (cls = "trace" /\ call.op \in TraceOps /\ raised = "none")
        => /\ Len(visual.spike_ids) = visual.n_spikes
           /\ Len(visual.spike_clusters) = visual.n_spikes
           /\ Len(visual.spike_samples) = visual.n_spikes
           /\ Len(visual.masks) = visual.n_spikes

\* C27: after a select on the trace view whose spike subset is not empty,
\* with the sample s of its first spike in [0, totalSamples) and
\* 1 <= 2h <= totalSamples for h = int(interval_size * sampleRate / 2), the
\* call has returned and the stored interval contains s (start <= s < end),
\* so the first spike of the selection is among the rendered spikes.
C27_FirstSpikeInWindow ==
    (/\ cls = "trace" /\ call.op = "select"
     /\ SubsetOfCall # {}
     /\ CentreOfCall \in 0..(TotalSamples - 1)
     /\ 1 <= 2 * HalfWindow /\ 2 * HalfWindow <= TotalSamples)
        => /\ raised = "none"
           /\ _interval.val[1] <= CentreOfCall
           /\ CentreOfCall < _interval.val[2]
           /\ \E i \in DOMAIN visual.spike_ids :
                 visual.spike_ids[i] = FirstOf(SubsetOfCall)

\* C27 witness: the first spike of the selection is on the last sample of
\* the traces and the interval requested around it reaches the right boundary.
C27_Witness ==
    /\ cls = "trace" /\ call.op = "select" /\ raised = "none"
    /\ SubsetOfCall # {} /\ HalfWindow = 1
    /\ CentreOfCall = TotalSamples - 1
    /\ ReqEnd = TotalSamples
    /\ _interval = Some(<<TotalSamples - 2, TotalSamples>>)

-----------------------------------------------------------------------------
(* Claims about the calls of the histogram kernel *)

IsOdd(x) == x % 2 = 1

\* C24: every on_select of the correlogram view hands an odd window size to
\* the histogram kernel, whatever winsize_bins is stored (an even value given
\* at construction, or any value left by change_bins): the stored value when
\* it is odd (_oddify(x) = x), the stored value plus 1 when it is even
\* (_oddify(x) = x + 1).
C24_KernelWindowOdd ==
    (cls = "correlogram" /\ call.op \in {"select", "change_bins"})
        => /\ Len(call.kernel_calls) = 1
           /\ IsOdd(call.kernel_calls[1].winsize_bins)
           /\ IsOdd(corr.winsize_bins)
                 => call.kernel_calls[1].winsize_bins = corr.winsize_bins
           /\ ~IsOdd(corr.winsize_bins)
                 => call.kernel_calls[1].winsize_bins = corr.winsize_bins + 1

\* C24 witness: a select on a view model constructed with winsize_bins = 40
\* has called the kernel with 41 bins.
C24_Witness ==
    /\ cls = "correlogram" /\ call.op = "select" /\ raised = "none"
    /\ corr.winsize_bins = DefaultWinsizeBins - 1
    /\ call.kernel_calls[1].winsize_bins = DefaultWinsizeBins
    /\ Len(call.ids) = 2

\* C25: change_bins runs the correlogram computation once, for the selection
\* of the last select() call, which it leaves as it is: on_select is invoked
\* once with the selected cluster ids in their order, and the kernel is called
\* once with these as cluster_order and with the new binsize and window size.
C25_ChangeBinsKeepsSelection ==
    [][/\ (cls = "correlogram" /\ call'.op = "select")
            => selector'.selected_clusters = call'.ids
       /\ (cls = "correlogram" /\ call'.op = "change_bins")
            => /\ selector'.selected_clusters = selector.selected_clusters
               /\ selector'.selected_spikes = selector.selected_spikes
               /\ on_select_args' = <<selector.selected_clusters>>
               /\ raised' = "none"
               /\ call'.kernel_calls =
                     <<[cluster_order |-> selector.selected_clusters,
                        binsize |-> corr'.binsize,
                        winsize_bins |-> corr'.winsize_bins]>>
               /\ view'.cluster_ids = selector.selected_clusters
               /\ visual'.cluster_order = selector.selected_clusters]_vars

\* C25 witness: change_bins after select([1, 0]) has changed the binsize and
\* the window size and called the kernel with the order [1, 0].
C25_Witness ==
    /\ cls = "correlogram" /\ call.op = "change_bins"
    /\ selector.selected_clusters = <<1, 0>>
    /\ corr.binsize # DefaultBinsize /\ corr.winsize_bins # DefaultWinsizeBins
    /\ call.kernel_calls[1].cluster_order = <<1, 0>>
    /\ call.kernel_calls[1].binsize = corr.binsize

-----------------------------------------------------------------------------
(* Claims about the channels of the feature grid *)

\* C28: for every selection that is not empty, dimensions_for_clusters gives
\* _dimensions an x-channel list and a y-channel list without a common
\* channel and both of length n_rows - 1, and the assertion of _dimensions
\* does not fail; for an empty selection it returns two empty mappings.
C28_GridChannelsSameLength ==
    fn.op = "dimensions_for_clusters"
        => IF fn.ids = <<>>
           THEN fn.result.raised = "none"
                /\ fn.result.x_dim = <<>> /\ fn.result.y_dim = <<>>
           ELSE /\ fn.result.raised = "none"
                /\ fn.result.called
                /\ Len(fn.result.x_channels) = fn.n_rows - 1
                /\ Len(fn.result.y_channels) = fn.n_rows - 1
                /\ \A i \in DOMAIN fn.result.x_channels :
                      \A j \in DOMAIN fn.result.y_channels :
                         fn.result.x_channels[i] # fn.result.y_channels[j]

====
